---- MODULE Spec2Model ----
(***************************************************************************)
(* The vehicle decoder: the Car record and its serializer (models.py),     *)
(* the two provider adapters and the two normalizers (decoder.py) and the  *)
(* /decode request handler (app.py).                                       *)
(*                                                                         *)
(* Python values are tagged records: the field t names the type.  A str is *)
(* a sequence of one-character strings, so that strip, upper, f-strings    *)
(* and " ".join are computed character by character.                       *)
(***************************************************************************)
EXTENDS Integers, Sequences, FiniteSets, TLC

VARIABLES
    pc,          \* position of the /decode handler
    form,        \* request.form of the request being handled
    vin,         \* handler local: vin
    year,        \* handler local: year
    params,      \* decode_vin local: the query parameters sent
    netCalls,    \* outbound requests.get calls issued for this request
    reply,       \* what requests.get produced for decode_vin
    raw,         \* handler local: raw
    car,         \* handler local: car
    exc,         \* exception in flight inside the handler's try block
    response,    \* the (body, status) pair the handler returned
    fn,          \* function applied outside the handler, if any
    arg,         \* its argument
    ret,         \* its result
    ppc,         \* position inside decode_plate
    pcall,       \* decode_plate's arguments and the module's CARSXE_API_KEY
    pparams,     \* decode_plate local: params
    plateCalls,  \* outbound requests.get calls issued by decode_plate
    presp,       \* what requests.get produced for decode_plate
    pret         \* what decode_plate returned or raised

handlerVars == <<pc, form, vin, year, params, netCalls, reply, raw, car, exc, response>>
fnVars == <<fn, arg, ret>>
plateVars == <<ppc, pcall, pparams, plateCalls, presp, pret>>
vars == <<handlerVars, fnVars, plateVars>>

(***************************************************************************)
(* Bounds                                                                  *)
(***************************************************************************)
MaxLen == 2        \* longest submitted vin field, in characters
MaxResults == 2    \* longest provider result collection

(***************************************************************************)
(* Python values                                                           *)
(***************************************************************************)
Unset == [t |-> "unset"]                 \* a local not assigned yet
None == [t |-> "None"]
PyStr(s) == [t |-> "str", s |-> s]
PyBool(b) == [t |-> "bool", b |-> b]
PyInt(n) == [t |-> "int", n |-> n]
PyDict(d) == [t |-> "dict", d |-> d]
Raise(kind, msg) == [t |-> "raise", kind |-> kind, msg |-> msg]

\* bool(v)
Truthy(v) ==
    CASE v.t = "None" -> FALSE
      [] v.t = "str" -> v.s # <<>>
      [] v.t = "bool" -> v.b
      [] v.t = "int" -> v.n # 0
      [] v.t = "dict" -> DOMAIN v.d # {}
      [] v.t = "list" -> v.l # <<>>
      [] OTHER -> TRUE

\* variant: the `or` fallback dropped
Or_First(a, b) == a

\* a or b
Or(a, b) == IF Truthy(a) THEN a ELSE b

\* isinstance(x, dict)
IsDict(x) == x.t = "dict"

\* d.get(k, default) and d.get(k)
GetDefault(d, k, default) == IF k \in DOMAIN d.d THEN d.d[k] ELSE default

Get(d, k) == GetDefault(d, k, None)

(***************************************************************************)
(* str operations                                                          *)
(***************************************************************************)
Whitespace == {" "}

RECURSIVE LStrip(_)
LStrip(s) == IF s # <<>> /\ Head(s) \in Whitespace THEN LStrip(Tail(s)) ELSE s

RECURSIVE RStrip(_)
RStrip(s) ==
    IF s # <<>> /\ s[Len(s)] \in Whitespace THEN RStrip(SubSeq(s, 1, Len(s) - 1)) ELSE s

\* str.strip()
Strip(s) == RStrip(LStrip(s))

ToUpper == [a |-> "A", b |-> "B", c |-> "C", h |-> "H", g |-> "G", x |-> "X"]

\* str.upper()
Upper(s) == [i \in 1..Len(s) |-> IF s[i] \in DOMAIN ToUpper THEN ToUpper[s[i]] ELSE s[i]]

\* sep.join(parts)
RECURSIVE Join(_, _)
Join(parts, sep) ==
    IF parts = <<>> THEN <<>>
    ELSE IF Len(parts) = 1 THEN parts[1]
    ELSE parts[1] \o sep \o Join(Tail(parts), sep)

(***************************************************************************)
(* models.py: Car                                                          *)
(***************************************************************************)
CarFields == {"vin", "year", "make", "model", "body_style", "engine", "assembly",
              "description"}

\* Car(): every attribute defaults to None
Car ==
    [t |-> "Car", vin |-> None, year |-> None, make |-> None, model |-> None,
     body_style |-> None, engine |-> None, assembly |-> None, description |-> None]

IsCar(x) == x.t = "Car"

\* variant: only None is filtered, "" is kept
to_dict_KeepEmpty(c) == PyDict([k \in {f \in CarFields : c[f] # None} |-> c[k]])

\* Car.to_dict: {k: v for k, v in asdict(self).items() if v not in (None, "")}
to_dict(c) ==
    PyDict([k \in {f \in CarFields : c[f] \notin {None, PyStr(<<>>)}} |-> c[k]])

(***************************************************************************)
(* decoder.py: parse_vin_result                                            *)
(***************************************************************************)
CylSuffix == <<"-", "c", "y", "l">>
DispSuffix == <<"L">>

\* variant: the fuel type appended first
EngineParts_FuelFirst(cylinders, disp_l, fuel) ==
    LET p1 == IF Truthy(fuel) THEN <<fuel.s>> ELSE <<>>
        p2 == IF Truthy(cylinders) THEN Append(p1, cylinders.s \o CylSuffix) ELSE p1
        p3 == IF Truthy(disp_l) THEN Append(p2, disp_l.s \o DispSuffix) ELSE p2
    IN p3

EngineParts(cylinders, disp_l, fuel) ==
    LET p1 == IF Truthy(cylinders) THEN <<cylinders.s \o CylSuffix>> ELSE <<>>
        p2 == IF Truthy(disp_l) THEN Append(p1, disp_l.s \o DispSuffix) ELSE p1
        p3 == IF Truthy(fuel) THEN Append(p2, fuel.s) ELSE p2
    IN p3

parse_vin_result(v, result) ==
    IF ~IsDict(result)
    THEN Raise("AttributeError", <<"g", "e", "t">>)
    ELSE
        LET cylinders == Or(Get(result, "EngineCylinders"), PyStr(<<>>))
            disp_l == Or(Get(result, "DisplacementL"), PyStr(<<>>))
            fuel == Or(Get(result, "FuelTypePrimary"), PyStr(<<>>))
            parts == EngineParts(cylinders, disp_l, fuel)
        IN [t |-> "Car",
            vin |-> v,
            year |-> Or(Get(result, "ModelYear"), None),
            make |-> Or(Get(result, "Make"), None),
            model |-> Or(Get(result, "Model"), None),
            body_style |-> Or(Get(result, "BodyClass"), None),
            engine |-> IF parts # <<>> THEN PyStr(Join(parts, <<" ">>)) ELSE None,
            assembly |-> Or(Get(result, "PlantCountry"), None),
            description |-> Or(Or(Get(result, "Series"), Get(result, "Trim")), None)]

(***************************************************************************)
(* decoder.py: parse_plate_result                                          *)
(***************************************************************************)
\* variant: the presence of `success` tested, not its truth
PlateFailed_KeyAbsent(data) == ~IsDict(data) \/ "success" \notin DOMAIN data.d

\* not isinstance(data, dict) or not data.get("success", False)
PlateFailed(data) == ~IsDict(data) \/ ~Truthy(GetDefault(data, "success", PyBool(FALSE)))

parse_plate_result(data) ==
    IF PlateFailed(data)
    THEN data
    ELSE [t |-> "Car",
          vin |-> Get(data, "vin"),
          year |-> Get(data, "RegistrationYear"),
          make |-> Get(data, "CarMake"),
          model |-> Get(data, "CarModel"),
          body_style |-> Get(data, "BodyStyle"),
          engine |-> Get(data, "EngineSize"),
          assembly |-> Get(data, "assembly"),
          description |-> Get(data, "Description")]

(***************************************************************************)
(* Inputs of the normalizers                                               *)
(***************************************************************************)
Classes == {"missing", "empty", "value"}

\* keys of a vPIC result row that parse_vin_result reads
VinKeys == {"ModelYear", "Make", "Model", "BodyClass", "EngineCylinders", "DisplacementL",
            "FuelTypePrimary", "PlantCountry", "Series", "Trim"}

\* the provider also echoes the identifier it decoded
RowKeys == VinKeys \cup {"VIN"}

VinVal ==
    [ModelYear |-> <<"2", "0", "2", "0">>,
     Make |-> <<"H", "O", "N", "D", "A">>,
     Model |-> <<"C", "i", "v", "i", "c">>,
     BodyClass |-> <<"S", "e", "d", "a", "n">>,
     EngineCylinders |-> <<"6">>,
     DisplacementL |-> <<"3", ".", "5">>,
     FuelTypePrimary |-> <<"G", "a", "s", "o", "l", "i", "n", "e">>,
     PlantCountry |-> <<"J", "A", "P", "A", "N">>,
     Series |-> <<"E", "X">>,
     Trim |-> <<"L", "X">>,
     VIN |-> <<"Z", "Z", "Z">>]

\* the dict whose key k is missing, "" or VinVal[k] as cls[k] says
VinDict(cls) ==
    PyDict([k \in {x \in DOMAIN cls : cls[x] # "missing"} |->
                IF cls[k] = "empty" THEN PyStr(<<>>) ELSE PyStr(VinVal[k])])

VinResults == {VinDict(cls) : cls \in [VinKeys -> Classes]}

SampleVin == PyStr(<<"1", "H", "G">>)

PlateKeys == {"vin", "RegistrationYear", "CarMake", "CarModel", "BodyStyle", "EngineSize",
              "assembly", "Description"}

PlateVal ==
    [vin |-> <<"1", "H", "G">>,
     RegistrationYear |-> <<"2", "0", "1", "9">>,
     CarMake |-> <<"T", "o", "y", "o", "t", "a">>,
     CarModel |-> <<"C", "a", "m", "r", "y">>,
     BodyStyle |-> <<"S", "e", "d", "a", "n">>,
     EngineSize |-> <<"2", ".", "5", "L">>,
     assembly |-> <<"U", "S", "A">>,
     Description |-> <<"X", "L", "E">>]

SuccessValues == {PyBool(TRUE), PyBool(FALSE), None, PyInt(0), PyInt(1), PyStr(<<>>),
                  PyStr(<<"y", "e", "s">>)}

PlateDict(cls, success) ==
    PyDict([k \in {x \in PlateKeys : cls[x] # "missing"} \cup
                  (IF success = Unset THEN {} ELSE {"success"}) |->
                IF k = "success" THEN success
                ELSE IF cls[k] = "empty" THEN PyStr(<<>>) ELSE PyStr(PlateVal[k])])

ErrorDict == PyDict([error |-> PyStr(<<"n", "o", " ", "k", "e", "y">>)])

PlateInputs ==
    {PlateDict(cls, s) : cls \in [PlateKeys -> Classes], s \in SuccessValues \cup {Unset}}
        \cup {ErrorDict, None, PyInt(0), PyStr(<<"o", "k">>)}

(***************************************************************************)
(* The normalizers applied to any input                                    *)
(***************************************************************************)
CallParseVin ==
    /\ fn = "parse_vin_result"
    /\ ret = Unset
    /\ ret' = parse_vin_result(arg.vin, arg.result)
    /\ UNCHANGED <<fn, arg, handlerVars, plateVars>>

CallParsePlate ==
    /\ fn = "parse_plate_result"
    /\ ret = Unset
    /\ ret' = parse_plate_result(arg)
    /\ UNCHANGED <<fn, arg, handlerVars, plateVars>>

(***************************************************************************)
(* Exceptions: the classes the code raises and catches                     *)
(***************************************************************************)
ExcBases ==
    [BaseException |-> {},
     Exception |-> {"BaseException"},
     OSError |-> {"Exception"},
     RequestException |-> {"OSError"},
     ConnectionError |-> {"RequestException"},
     Timeout |-> {"RequestException"},
     HTTPError |-> {"RequestException"},
     ValueError |-> {"Exception"},
     JSONDecodeError |-> {"ValueError", "RequestException"},
     AttributeError |-> {"Exception"},
     LookupError |-> {"Exception"},
     KeyError |-> {"LookupError"}]

\* isinstance(e, cls) for an exception e of class kind
RECURSIVE IsInstance(_, _)
IsInstance(kind, cls) ==
    kind = cls \/ \E b \in ExcBases[kind] : IsInstance(b, cls)

(***************************************************************************)
(* What the VIN provider can answer                                        *)
(***************************************************************************)
PyList(l) == [t |-> "list", l |-> l]
Text(s) == [t |-> "text", s |-> s]          \* a body response.json() cannot parse
Json(v) == [t |-> "json", data |-> v]       \* a body response.json() parses to v
Response(status, body) == [t |-> "response", status |-> status, body |-> body]

\* rows whose keys fall into four groups, the keys of a group missing, "" or set together
RowGroup ==
    [ModelYear |-> "direct", Make |-> "direct", Model |-> "direct", BodyClass |-> "direct",
     PlantCountry |-> "direct", EngineCylinders |-> "engine", DisplacementL |-> "engine",
     FuelTypePrimary |-> "engine", Series |-> "description", Trim |-> "description",
     VIN |-> "vin"]

HandlerRows ==
    {VinDict([k \in RowKeys |-> g[RowGroup[k]]]) :
        g \in [{"direct", "engine", "description", "vin"} -> Classes]}

FullRow == VinDict([k \in RowKeys |-> "value"])
EmptyRow == VinDict([k \in RowKeys |-> "empty"])
SampleRows == {FullRow, EmptyRow, None}

ResultLists ==
    {<<r>> : r \in HandlerRows \cup {None}}
        \cup UNION {[1..n -> SampleRows] : n \in 2..MaxResults}

OkBodies ==
    {Text(<<"<", "h", "t", "m", "l", ">">>), Json(None), Json(PyDict(<<>>)), Json(PyDict([Results |-> None])),
     Json(PyDict([Results |-> PyList(<<>>)]))}
        \cup {Json(PyDict([Results |-> PyList(l)])) : l \in ResultLists}

ErrorBodies == {Text(<<"<", "h", "t", "m", "l", ">">>), Json(PyDict([Results |-> PyList(<<FullRow>>)]))}

TransportErrors ==
    {Raise("ConnectionError", <<"c", "o", "n", "n", "e", "c", "t", "i", "o", "n", " ", "r", "e", "f", "u", "s", "e", "d">>), Raise("Timeout", <<"t", "i", "m", "e", "d", " ", "o", "u", "t">>)}

VinReplies ==
    TransportErrors
        \cup {Response(200, b) : b \in OkBodies}
        \cup {Response(s, b) : s \in {404, 503}, b \in ErrorBodies}

(***************************************************************************)
(* What a client can submit                                                *)
(***************************************************************************)
FormChars == {" ", "a", "7"}

VinFields == {PyStr(s) : s \in UNION {[1..n -> FormChars] : n \in 0..MaxLen}}

YearFields == {PyStr(<<>>), PyStr(<<" ">>), PyStr(<<" ", "9", " ">>)}

FormOf(v, y) ==
    PyDict([k \in (IF v = Unset THEN {} ELSE {"vin"}) \cup (IF y = Unset THEN {} ELSE {"year"})
               |-> IF k = "vin" THEN v ELSE y])

Forms == {FormOf(v, y) : v \in VinFields \cup {Unset}, y \in YearFields \cup {Unset}}

(***************************************************************************)
(* decoder.py: decode_vin                                                  *)
(***************************************************************************)
\* params = {"format": "json"}; if model_year: params["modelyear"] = model_year
VinParams(model_year) ==
    IF Truthy(model_year)
    THEN PyDict([format |-> PyStr(<<"j", "s", "o", "n">>), modelyear |-> model_year])
    ELSE PyDict([format |-> PyStr(<<"j", "s", "o", "n">>)])

\* variant: only 5xx statuses raise
RaisesForStatus_ServerOnly(status) == status >= 500 /\ status < 600

\* response.raise_for_status(): raises HTTPError for a 4xx or 5xx status
RaisesForStatus(status) == status >= 400 /\ status < 600

\* variant: results[-1]
ResultsFirst_Last(results) == results.l[Len(results.l)]

\* results[0]
ResultsFirst(results) == results.l[1]

UnexpectedStructure == Raise("ValueError", <<"U", "n", "e", "x", "p", "e", "c", "t", "e", "d", " ", "r", "e", "s", "p", "o", "n", "s", "e", " ", "s", "t", "r", "u", "c", "t", "u", "r", "e", " ", "f", "r", "o", "m", " ", "N", "H", "T", "S", "A", " ", "A", "P", "I">>)

\* what decode_vin returns or raises once requests.get has returned resp
DecodeVinResult(resp) ==
    IF RaisesForStatus(resp.status) THEN Raise("HTTPError", <<"H", "T", "T", "P", " ", "e", "r", "r", "o", "r", " ", "f", "o", "r", " ", "u", "r", "l">>)
    ELSE IF resp.body.t = "text" THEN Raise("JSONDecodeError", <<"E", "x", "p", "e", "c", "t", "i", "n", "g", " ", "v", "a", "l", "u", "e">>)
    ELSE IF ~IsDict(resp.body.data) THEN Raise("AttributeError", <<"n", "o", " ", "a", "t", "t", "r", "i", "b", "u", "t", "e", " ", "'", "g", "e", "t", "'">>)
    ELSE LET results == GetDefault(resp.body.data, "Results", PyList(<<>>))
         IN IF ~Truthy(results) THEN UnexpectedStructure ELSE ResultsFirst(results)

(***************************************************************************)
(* app.py: the /decode handler                                             *)
(***************************************************************************)
\* variant: .upper() dropped
NormalizeVin_StripOnly(s) == PyStr(Strip(s.s))

\* request.form.get("vin", "").strip().upper()
NormalizeVin(s) == PyStr(Upper(Strip(s.s)))

\* request.form.get("year", "").strip()
NormalizeYear(s) == PyStr(Strip(s.s))

\* variant: except ValueError
Caught_ValueErrorOnly(kind) == IsInstance(kind, "ValueError")

\* except Exception as exc
Caught(kind) == IsInstance(kind, "Exception")

JsonResponse(key, value, status) ==
    [status |-> status, body |-> PyDict([k \in {key} |-> value])]

MissingVin == <<"P", "l", "e", "a", "s", "e", " ", "p", "r", "o", "v", "i", "d", "e", " ", "a", " ", "V", "I", "N", ".">>

\* a client posts a form to /decode; the handler's locals are fresh
Submit ==
    /\ pc = "idle"
    /\ fn = "none"
    /\ \E f \in Forms : form' = f
    /\ pc' = "handler"
    /\ vin' = Unset /\ year' = Unset /\ params' = Unset /\ reply' = Unset
    /\ raw' = Unset /\ car' = Unset /\ exc' = Unset /\ response' = Unset
    /\ netCalls' = 0
    /\ UNCHANGED <<fnVars, plateVars>>

\* app.py 39-41 and 48-49: read the fields, reject an empty vin
ReadForm ==
    /\ pc = "handler"
    /\ LET v == NormalizeVin(GetDefault(form, "vin", PyStr(<<>>)))
           y == NormalizeYear(GetDefault(form, "year", PyStr(<<>>)))
       IN /\ vin' = v
          /\ year' = y
          /\ IF Truthy(v)
             THEN pc' = "decode_vin" /\ UNCHANGED response
             ELSE pc' = "done" /\ response' = JsonResponse("error", PyStr(MissingVin), 400)
    /\ UNCHANGED <<form, params, netCalls, reply, raw, car, exc, fnVars, plateVars>>

\* variant: a transport failure is retried once
RequestsGet_RetryOnce ==
    /\ pc = "decode_vin"
    /\ params' = [url_vin |-> vin, query |-> VinParams(Or(year, None))]
    /\ netCalls' = netCalls + 1
    /\ \E r \in VinReplies :
          /\ reply' = r
          /\ IF r.t = "raise"
             THEN IF netCalls = 0
                  THEN pc' = "decode_vin" /\ UNCHANGED exc
                  ELSE exc' = r /\ pc' = "except"
             ELSE pc' = "decode_vin_response" /\ UNCHANGED exc
    /\ UNCHANGED <<form, vin, year, raw, car, response, fnVars, plateVars>>

\* app.py 43 and decoder.py 89-94: decode_vin(vin, year or None) up to requests.get
RequestsGet ==
    /\ pc = "decode_vin"
    /\ params' = [url_vin |-> vin, query |-> VinParams(Or(year, None))]
    /\ netCalls' = netCalls + 1
    /\ \E r \in VinReplies :
          /\ reply' = r
          /\ IF r.t = "raise"
             THEN exc' = r /\ pc' = "except"
             ELSE pc' = "decode_vin_response" /\ UNCHANGED exc
    /\ UNCHANGED <<form, vin, year, raw, car, response, fnVars, plateVars>>

\* decoder.py 95-100: the rest of decode_vin
DecodeVinReturn ==
    /\ pc = "decode_vin_response"
    /\ LET out == DecodeVinResult(reply)
       IN IF out.t = "raise"
          THEN exc' = out /\ pc' = "except" /\ UNCHANGED raw
          ELSE raw' = out /\ pc' = "parse" /\ UNCHANGED exc
    /\ UNCHANGED <<form, vin, year, params, netCalls, reply, car, response, fnVars, plateVars>>

\* app.py 44-45: normalize, serialize, respond
RespondCar ==
    /\ pc = "parse"
    /\ LET c == parse_vin_result(vin, raw)
       IN IF c.t = "raise"
          THEN exc' = c /\ pc' = "except" /\ UNCHANGED <<car, response>>
          ELSE /\ car' = c
               /\ response' = JsonResponse("car", to_dict(c), 200)
               /\ pc' = "done"
               /\ UNCHANGED exc
    /\ UNCHANGED <<form, vin, year, params, netCalls, reply, raw, fnVars, plateVars>>

\* app.py 46-47: the handler's except clause
Catch ==
    /\ pc = "except"
    /\ IF Caught(exc.kind)
       THEN pc' = "done" /\ response' = JsonResponse("error", PyStr(exc.msg), 500)
       ELSE pc' = "escaped" /\ UNCHANGED response
    /\ UNCHANGED <<form, vin, year, params, netCalls, reply, raw, car, exc, fnVars, plateVars>>

\* the handler has returned (or let an exception out): its frame is discarded
EndRequest ==
    /\ pc \in {"done", "escaped"}
    /\ pc' = "idle"
    /\ form' = Unset /\ vin' = Unset /\ year' = Unset /\ params' = Unset /\ reply' = Unset
    /\ raw' = Unset /\ car' = Unset /\ exc' = Unset /\ response' = Unset
    /\ netCalls' = 0
    /\ UNCHANGED <<fnVars, plateVars>>

(***************************************************************************)
(* Car.to_dict applied to any record                                       *)
(***************************************************************************)
FieldValues == {None, PyStr(<<>>), PyStr(<<"x">>)}

Cars == {[c \in CarFields \cup {"t"} |-> IF c = "t" THEN "Car" ELSE f[c]] :
            f \in [CarFields -> FieldValues]}

CallToDict ==
    /\ pc = "idle"
    /\ fn = "none"
    /\ \E c \in Cars : arg' = c /\ ret' = to_dict(c)
    /\ fn' = "to_dict"
    /\ UNCHANGED <<handlerVars, plateVars>>

\* the call has returned and its result is dropped
EndCall ==
    /\ fn = "to_dict"
    /\ fn' = "none" /\ arg' = Unset /\ ret' = Unset
    /\ UNCHANGED <<handlerVars, plateVars>>

(***************************************************************************)
(* Specifications                                                          *)
(***************************************************************************)
HandlerIdle ==
    /\ pc = "idle"
    /\ form = Unset /\ vin = Unset /\ year = Unset /\ params = Unset /\ reply = Unset
    /\ raw = Unset /\ car = Unset /\ exc = Unset /\ response = Unset
    /\ netCalls = 0

FnIdle == fn = "none" /\ arg = Unset /\ ret = Unset

PlateIdle ==
    /\ ppc = "idle"
    /\ pcall = Unset /\ pparams = Unset /\ presp = Unset /\ pret = Unset
    /\ plateCalls = 0

Init == HandlerIdle /\ FnIdle /\ PlateIdle

Next ==
    \/ Submit \/ ReadForm \/ RequestsGet \/ DecodeVinReturn \/ RespondCar \/ Catch
    \/ EndRequest \/ CallToDict \/ EndCall

Spec == Init /\ [][Next]_vars

\* a step of the handler's single thread, requests.get (timeout=10) included
HandlerStep == ReadForm \/ RequestsGet \/ DecodeVinReturn \/ RespondCar \/ Catch

\* the handler runs to its return: the step it can take, it takes
LiveSpec == Spec /\ WF_vars(HandlerStep)

NormInit ==
    /\ HandlerIdle /\ PlateIdle
    /\ ret = Unset
    /\ \/ fn = "parse_vin_result" /\ arg \in {[vin |-> SampleVin, result |-> r] : r \in VinResults}
       \/ fn = "parse_plate_result" /\ arg \in PlateInputs

NormNext == CallParseVin \/ CallParsePlate

NormSpec == NormInit /\ [][NormNext]_vars

(***************************************************************************)
(* decoder.py: decode_plate                                                *)
(***************************************************************************)
DigitChars == <<"0", "1", "2", "3", "4", "5", "6", "7", "8", "9">>

\* str(n) for n >= 0
RECURSIVE IntToStr(_)
IntToStr(n) ==
    IF n < 10 THEN <<DigitChars[n + 1]>>
    ELSE IntToStr(n \div 10) \o <<DigitChars[(n % 10) + 1]>>

\* a body with its text, parsed by response.json() to v
JsonText(s, v) == [t |-> "json", s |-> s, data |-> v]

NoKeyMessage ==
    <<"L", "i", "c", "e", "n", "s", "e", " ", "p", "l", "a", "t", "e", " ", "d", "e", "c", "o", "d", "i", "n", "g", " ", "r", "e", "q", "u", "i", "r", "e", "s", " ", "a", " ", "C", "a", "r", "s", "X", "E", " ", "A", "P", "I", " ", "k", "e", "y", ".", " ">>
        \o <<"S", "e", "t", " ", "t", "h", "e", " ", "C", "A", "R", "S", "X", "E", "_", "A", "P", "I", "_", "K", "E", "Y", " ", "e", "n", "v", "i", "r", "o", "n", "m", "e", "n", "t", " ", "v", "a", "r", "i", "a", "b", "l", "e", " ", "t", "o", " ", "e", "n", "a", "b", "l", "e", " ", "t", "h", "i", "s", " ", "f", "e", "a", "t", "u", "r", "e", ".">>

ErrorValue(msg) == PyDict([error |-> PyStr(msg)])

\* key = api_key or CARSXE_API_KEY
PlateKey(call) == Or(call.api_key, call.CARSXE_API_KEY)

\* variant: except requests.Timeout
PlateCaught_TimeoutOnly(kind) == IsInstance(kind, "Timeout")

\* except Exception as exc, around requests.get
PlateCaught(kind) == IsInstance(kind, "Exception")

\* response.status_code != 200
PlateStatusFailed(status) == status # 200

PlateArgs ==
    [plate : {PyStr(<<"7", "A", "B", "C", "1", "2", "3">>), PyStr(<<>>)},
     state : {PyStr(<<"C", "A">>), PyStr(<<"N", "Y">>)},
     api_key : {None, PyStr(<<>>), PyStr(<<"k", "1">>)},
     CARSXE_API_KEY : {None, PyStr(<<>>), PyStr(<<"k", "2">>)}]

PlateBodies ==
    {Text(<<"<", "h", "t", "m", "l", ">">>),
     Text(<<>>),
     JsonText(<<"n", "u", "l", "l">>, None),
     JsonText(<<"{", "s", "u", "c", "c", "e", "s", "s", ":", "f", "a", "l", "s", "e", "}">>, PyDict([success |-> PyBool(FALSE)])),
     JsonText(<<"{", "s", "u", "c", "c", "e", "s", "s", ":", "t", "r", "u", "e", ",", ".", ".", ".", "}">>, PlateDict([k \in PlateKeys |-> "value"], PyBool(TRUE)))}

PlateReplies ==
    TransportErrors \cup {Response(s, b) : s \in {200, 201, 403, 500}, b \in PlateBodies}

\* decoder.py 115-129: resolve the key; without one, return the error value
PlateResolveKey ==
    /\ ppc = "call"
    /\ IF ~Truthy(PlateKey(pcall))
       THEN ppc' = "returned" /\ pret' = ErrorValue(NoKeyMessage) /\ UNCHANGED pparams
       ELSE /\ ppc' = "get"
            /\ pparams' = PyDict([plate |-> pcall.plate, state |-> pcall.state,
                                  format |-> PyStr(<<"j", "s", "o", "n">>), key |-> PlateKey(pcall)])
            /\ UNCHANGED pret
    /\ UNCHANGED <<pcall, plateCalls, presp, handlerVars, fnVars>>

\* decoder.py 130-133: the request; a transport exception becomes the error value
PlateRequestsGet ==
    /\ ppc = "get"
    /\ plateCalls' = plateCalls + 1
    /\ \E r \in PlateReplies :
          /\ presp' = r
          /\ IF r.t = "raise"
             THEN IF PlateCaught(r.kind)
                  THEN ppc' = "returned" /\ pret' = ErrorValue(r.msg)
                  ELSE ppc' = "raised" /\ pret' = r
             ELSE ppc' = "response" /\ UNCHANGED pret
    /\ UNCHANGED <<pcall, pparams, handlerVars, fnVars>>

\* decoder.py 134-139: the status, then the body
PlateReturn ==
    /\ ppc = "response"
    /\ ppc' = "returned"
    /\ pret' =
          IF PlateStatusFailed(presp.status)
          THEN ErrorValue(<<"C", "a", "r", "s", "X", "E", " ", "A", "P", "I", " ", "r", "e", "t", "u", "r", "n", "e", "d", " ", "s", "t", "a", "t", "u", "s", " ">> \o IntToStr(presp.status)
                              \o <<":", " ">> \o presp.body.s)
          ELSE IF presp.body.t = "text"
          THEN ErrorValue(<<"C", "a", "r", "s", "X", "E", " ", "A", "P", "I", " ", "r", "e", "t", "u", "r", "n", "e", "d", " ", "a", "n", " ", "u", "n", "r", "e", "a", "d", "a", "b", "l", "e", " ", "r", "e", "s", "p", "o", "n", "s", "e">>)
          ELSE presp.body.data
    /\ UNCHANGED <<pcall, pparams, plateCalls, presp, handlerVars, fnVars>>

PlateInit ==
    /\ HandlerIdle /\ FnIdle
    /\ ppc = "call"
    /\ pcall \in PlateArgs
    /\ pparams = Unset /\ presp = Unset /\ pret = Unset
    /\ plateCalls = 0

PlateNext == PlateResolveKey \/ PlateRequestsGet \/ PlateReturn

PlateSpec == PlateInit /\ [][PlateNext]_vars

(***************************************************************************)
(* Properties of the record's serializer and of the request handler        *)
(***************************************************************************)
\* d holds exactly the fields of record c that are non-empty strings, with c's values
ExactlyNonEmpty(c, d) ==
    /\ IsDict(d)
    /\ DOMAIN d.d \subseteq CarFields
    /\ \A k \in DOMAIN d.d : d.d[k].t = "str" /\ Len(d.d[k].s) > 0
    /\ \A f \in CarFields :
          (c[f].t = "str" /\ Len(c[f].s) > 0) => (f \in DOMAIN d.d /\ d.d[f] = c[f])

\* C1: to_dict returns exactly the fields that are neither None nor "", for any
\* record and for the record the handler builds by decode -> normalize -> serialize.
C1_SerializationOmitsEmpty ==
    /\ fn = "to_dict" => ExactlyNonEmpty(arg, ret)
    /\ (pc = "done" /\ response.status = 200) =>
          /\ DOMAIN response.body.d = {"car"}
          /\ ExactlyNonEmpty(car, response.body.d.car)

C1_Witness ==
    /\ fn = "to_dict"
    /\ arg.vin = PyStr(<<"x">>) /\ arg.make = PyStr(<<>>) /\ arg.model = None
    /\ arg.year = PyStr(<<"x">>)
    /\ "vin" \in DOMAIN ret.d /\ "make" \notin DOMAIN ret.d /\ "model" \notin DOMAIN ret.d

\* the submitted vin field is missing, empty or whitespace only
BlankVin ==
    "vin" \in DOMAIN form.d => \A i \in 1..Len(form.d.vin.s) : form.d.vin.s[i] = " "

\* C2: the handler ends in exactly one of: 400 with an error body (blank vin), 500
\* with an error body carrying the exception's message (the pipeline raised), 200
\* with a car body (the pipeline completed); no exception escapes the handler.
C2_HandlerOutcomes ==
    /\ pc # "escaped"
    /\ pc = "except" => ~BlankVin
    /\ pc = "done" =>
          IF BlankVin
          THEN /\ response.status = 400
               /\ DOMAIN response.body.d = {"error"}
               /\ exc = Unset
          ELSE IF exc # Unset
          THEN /\ response.status = 500
               /\ DOMAIN response.body.d = {"error"}
               /\ response.body.d.error = PyStr(exc.msg)
          ELSE /\ response.status = 200
               /\ DOMAIN response.body.d = {"car"}
               /\ car # Unset

C2_Witness ==
    /\ pc = "done"
    /\ ~BlankVin
    /\ exc # Unset /\ exc.kind = "ConnectionError"
    /\ response.status = 500
    /\ response.body.d.error = PyStr(<<"c", "o", "n", "n", "e", "c", "t", "i", "o", "n", " ", "r", "e", "f", "u", "s", "e", "d">>)

\* the provider answered with a parsed object whose result collection is empty or missing
EmptyOrMissingResults ==
    /\ reply.t = "response" /\ reply.status = 200
    /\ reply.body.t = "json" /\ reply.body.data.t = "dict"
    /\ "Results" \in DOMAIN reply.body.data.d =>
          reply.body.data.d.Results = PyList(<<>>)

\* the provider answered with a parsed object whose result collection has an element
NonEmptyResults ==
    /\ reply.t = "response" /\ reply.status = 200
    /\ reply.body.t = "json" /\ reply.body.data.t = "dict"
    /\ "Results" \in DOMAIN reply.body.data.d
    /\ reply.body.data.d.Results.t = "list"
    /\ Len(reply.body.data.d.Results.l) > 0

\* decode_vin has returned or raised
DecodeVinOver == pc \in {"parse", "except", "done", "escaped"}

\* C4 as stated: an empty or missing result collection makes decode_vin fail with
\* LookupError.
C4_Original_LookupError ==
    (DecodeVinOver /\ EmptyOrMissingResults) =>
        (exc # Unset /\ IsInstance(exc.kind, "LookupError"))

\* C4 amended: an empty or missing result collection makes decode_vin fail with
\* ValueError ("Unexpected response structure from NHTSA API"); a non-empty one makes
\* it return the first element, without an error.
C4_ValueErrorOrFirst ==
    /\ (DecodeVinOver /\ EmptyOrMissingResults) =>
          /\ exc = UnexpectedStructure
          /\ exc.kind = "ValueError" /\ ~IsInstance(exc.kind, "LookupError")
          /\ raw = Unset
    /\ (DecodeVinOver /\ NonEmptyResults) =>
          /\ raw = Head(reply.body.data.d.Results.l)
          /\ pc = "parse" => exc = Unset

C4_Witness ==
    /\ pc = "except"
    /\ EmptyOrMissingResults
    /\ "Results" \in DOMAIN reply.body.data.d
    /\ exc # Unset /\ exc.kind = "ValueError"

\* C8: a transport failure or a non-success status ends decode_vin by raising a
\* network error: nothing is returned, the normalizer runs on nothing.
C8_NetworkErrorsPropagate ==
    (/\ DecodeVinOver
     /\ \/ reply.t = "raise"
        \/ reply.t = "response" /\ reply.status \notin 200..299)
    => /\ exc # Unset
       /\ IsInstance(exc.kind, "RequestException")
       /\ raw = Unset /\ car = Unset
       /\ pc = "done" => response.status = 500

C8_Witness ==
    /\ pc = "done"
    /\ reply.t = "response" /\ reply.status = 404 /\ reply.body.t = "json"
    /\ exc # Unset /\ exc.kind = "HTTPError"
    /\ raw = Unset
    /\ response.status = 500

\* the handler's locals as a new request finds them
FreshLocals ==
    /\ vin = Unset /\ year = Unset /\ params = Unset /\ reply = Unset
    /\ raw = Unset /\ car = Unset /\ exc = Unset /\ response = Unset
    /\ netCalls = 0

\* one request never issues a second outbound call; a finished request has issued
\* none when it was rejected with 400 and exactly one otherwise
OneCallPerRequest ==
    /\ netCalls <= 1
    /\ pc \in {"idle", "handler", "decode_vin"} => netCalls = 0
    /\ pc \in {"decode_vin_response", "parse", "except"} => netCalls = 1
    /\ pc = "done" => netCalls = (IF response.status = 400 THEN 0 ELSE 1)
    /\ pc = "done" => response.status \in {200, 400, 500}

\* C9: a request issues at most one outbound call (none when rejected with 400, no
\* second one after a failure), every request reaches its response, and a new
\* request starts from fresh locals.
C9_OneCallNoRetry ==
    /\ []OneCallPerRequest
    /\ [][pc' = "handler" => FreshLocals']_vars
    /\ (pc = "handler") ~> (pc = "done" /\ response # Unset)

C9_Witness ==
    /\ pc = "done"
    /\ response.status = 500
    /\ exc # Unset /\ exc.kind = "ValueError"
    /\ netCalls = 1

\* core is s without its leading and trailing blanks
IsTrimOf(core, s) ==
    \E i \in 0..Len(s), j \in 0..Len(s) :
        /\ i + j <= Len(s)
        /\ \A k \in 1..i : s[k] = " "
        /\ \A k \in (Len(s) - j + 1)..Len(s) : s[k] = " "
        /\ core = SubSeq(s, i + 1, Len(s) - j)
        /\ core # <<>> => (core[1] # " " /\ core[Len(core)] # " ")

\* up is core with its lower-case letters replaced by their capitals
IsUpperOf(up, core) ==
    /\ Len(up) = Len(core)
    /\ \A k \in 1..Len(core) : up[k] = (IF core[k] = "a" THEN "A" ELSE core[k])

FormField(k) == IF k \in DOMAIN form.d THEN form.d[k].s ELSE <<>>

\* C10: the vin the handler uses is the submitted one trimmed and upper-cased; it is
\* what the adapter is called with and what every 200 response carries as `vin`,
\* whatever the provider returned; a blank year sends no modelyear parameter.
C10_NormalizedVinEverywhere ==
    /\ pc \notin {"idle", "handler"} =>
          \E core \in {SubSeq(FormField("vin"), a, b) :
                          a \in 1..(Len(FormField("vin")) + 1), b \in 0..Len(FormField("vin"))} :
              IsTrimOf(core, FormField("vin")) /\ IsUpperOf(vin.s, core)
    /\ params # Unset =>
          /\ params.url_vin = vin
          /\ params.query.d.format = PyStr(<<"j", "s", "o", "n">>)
          /\ ("modelyear" \in DOMAIN params.query.d) <=>
                (\E k \in 1..Len(FormField("year")) : FormField("year")[k] # " ")
          /\ "modelyear" \in DOMAIN params.query.d =>
                IsTrimOf(params.query.d.modelyear.s, FormField("year"))
    /\ (pc = "done" /\ response.status = 200) =>
          /\ "vin" \in DOMAIN response.body.d.car.d
          /\ response.body.d.car.d.vin = vin

C10_Witness ==
    /\ pc = "done"
    /\ response.status = 200
    /\ FormField("vin") = <<" ", "a">>
    /\ "year" \in DOMAIN form.d /\ form.d.year = PyStr(<<" ">>)
    /\ "VIN" \in DOMAIN raw.d /\ raw.d.VIN = PyStr(<<"Z", "Z", "Z">>)
    /\ response.body.d.car.d.vin = PyStr(<<"A">>)
    /\ "modelyear" \notin DOMAIN params.query.d

(***************************************************************************)
(* Properties of the plate adapter and of the normalizers                  *)
(***************************************************************************)
HasError(v) == IsDict(v) /\ "error" \in DOMAIN v.d /\ v.d.error.t = "str"

\* neither the argument nor the environment supplies a key
NoApiKey ==
    /\ pcall.api_key \in {None, PyStr(<<>>)}
    /\ pcall.CARSXE_API_KEY \in {None, PyStr(<<>>)}

\* C3: decode_plate never raises; without a key, after a transport exception, on a
\* status other than 200 and on an unparseable body it returns a record with an
\* `error` field, and without a key it issues no request.
C3_PlateNeverRaises ==
    /\ ppc # "raised"
    /\ pret # Unset => pret.t # "raise"
    /\ NoApiKey => (plateCalls = 0 /\ presp = Unset /\ ppc \in {"call", "returned"})
    /\ ppc = "returned" =>
          /\ NoApiKey => HasError(pret)
          /\ (~NoApiKey /\ presp.t = "raise") => HasError(pret)
          /\ (~NoApiKey /\ presp.t = "response" /\ presp.status # 200) => HasError(pret)
          /\ (~NoApiKey /\ presp.t = "response" /\ presp.status = 200
                /\ presp.body.t = "text") => HasError(pret)
          /\ ~NoApiKey => plateCalls = 1

C3_Witness ==
    /\ ppc = "returned"
    /\ ~NoApiKey
    /\ presp.t = "raise" /\ presp.kind = "ConnectionError"
    /\ HasError(pret)
    /\ pret.d.error = PyStr(presp.msg)

\* the input carries a `success` field that is true, a non-zero number or a non-empty string
SuccessTruthy(data) ==
    /\ data.t = "dict"
    /\ "success" \in DOMAIN data.d
    /\ data.d.success \in {PyBool(TRUE), PyInt(1), PyStr(<<"y", "e", "s">>)}

PlateFieldKey ==
    [vin |-> "vin", year |-> "RegistrationYear", make |-> "CarMake", model |-> "CarModel",
     body_style |-> "BodyStyle", engine |-> "EngineSize", assembly |-> "assembly",
     description |-> "Description"]

\* C5: parse_plate_result returns its input unchanged unless `success` is truthy,
\* and then a Car whose fields are the input's CarMake, RegistrationYear, ...
C5_PlatePassthrough ==
    (fn = "parse_plate_result" /\ ret # Unset) =>
        IF SuccessTruthy(arg)
        THEN /\ IsCar(ret)
             /\ \A f \in CarFields :
                   ret[f] = (IF PlateFieldKey[f] \in DOMAIN arg.d
                             THEN arg.d[PlateFieldKey[f]] ELSE None)
        ELSE ret = arg /\ ~IsCar(ret)

C5_Witness ==
    /\ fn = "parse_plate_result"
    /\ arg.t = "dict"
    /\ DOMAIN arg.d = {"success", "CarMake"}
    /\ arg.d.success = PyInt(0) /\ arg.d.CarMake = PyStr(<<"T", "o", "y", "o", "t", "a">>)
    /\ ret = arg

\* key k of the vPIC row is present with a non-empty string
Present(k) ==
    /\ k \in DOMAIN arg.result.d
    /\ arg.result.d[k].t = "str"
    /\ Len(arg.result.d[k].s) > 0

Blank == <<" ">>

\* the engine description the row calls for, None when no part is present
ExpectedEngine ==
    LET c == Present("EngineCylinders")
        d == Present("DisplacementL")
        f == Present("FuelTypePrimary")
        row == arg.result.d
    IN IF ~c /\ ~d /\ ~f THEN None
       ELSE PyStr((IF c THEN row.EngineCylinders.s \o <<"-", "c", "y", "l">> ELSE <<>>)
                    \o (IF c /\ (d \/ f) THEN Blank ELSE <<>>)
                    \o (IF d THEN row.DisplacementL.s \o <<"L">> ELSE <<>>)
                    \o (IF d /\ f THEN Blank ELSE <<>>)
                    \o (IF f THEN row.FuelTypePrimary.s ELSE <<>>))

\* no blank at either end of s and no two blanks in a row
SingleSpaced(s) ==
    /\ s # <<>>
    /\ s[1] # " " /\ s[Len(s)] # " "
    /\ \A i \in 1..(Len(s) - 1) : ~(s[i] = " " /\ s[i + 1] = " ")

\* C6: the engine description is cylinders + "-cyl", displacement + "L", fuel type,
\* the present ones only, in that order, joined by single spaces; None when none
\* of the three is present, never "".
C6_EngineDescription ==
    (fn = "parse_vin_result" /\ ret # Unset) =>
        /\ IsCar(ret)
        /\ ret.engine = ExpectedEngine
        /\ ret.engine # PyStr(<<>>)
        /\ ret.engine # None =>
              /\ SingleSpaced(ret.engine.s)
              /\ Cardinality({i \in 1..Len(ret.engine.s) : ret.engine.s[i] = " "}) + 1 =
                    Cardinality({k \in {"EngineCylinders", "DisplacementL", "FuelTypePrimary"} :
                                    Present(k)})

C6_Witness ==
    /\ fn = "parse_vin_result"
    /\ Present("EngineCylinders") /\ arg.result.d.EngineCylinders = PyStr(<<"6">>)
    /\ Present("DisplacementL") /\ arg.result.d.DisplacementL = PyStr(<<"3", ".", "5">>)
    /\ Present("FuelTypePrimary") /\ arg.result.d.FuelTypePrimary = PyStr(<<"G", "a", "s", "o", "l", "i", "n", "e">>)
    /\ ret # Unset
    /\ ret.engine = PyStr(<<"6", "-", "c", "y", "l", " ", "3", ".", "5", "L", " ", "G", "a", "s", "o", "l", "i", "n", "e">>)

VinFieldKey ==
    [year |-> "ModelYear", make |-> "Make", model |-> "Model", body_style |-> "BodyClass",
     assembly |-> "PlantCountry"]

\* C7: neither normalizer fails on a missing field, and a missing field is None in
\* the record; in the VIN normalizer a missing or "" source field is absent from
\* the serialized record, and description is Series when non-empty, else Trim.
C7_NormalizersTotal ==
    /\ ret # Unset => ret.t # "raise"
    /\ (fn = "parse_vin_result" /\ ret # Unset) =>
          /\ IsCar(ret)
          /\ \A f \in CarFields : ret[f].t \in {"None", "str"}
          /\ \A f \in DOMAIN VinFieldKey :
                IF Present(VinFieldKey[f])
                THEN ret[f] = arg.result.d[VinFieldKey[f]]
                ELSE ret[f] = None /\ f \notin DOMAIN to_dict(ret).d
          /\ (~Present("EngineCylinders") /\ ~Present("DisplacementL")
                /\ ~Present("FuelTypePrimary")) =>
                (ret.engine = None /\ "engine" \notin DOMAIN to_dict(ret).d)
          /\ ret.description =
                (IF Present("Series") THEN arg.result.d.Series
                 ELSE IF Present("Trim") THEN arg.result.d.Trim ELSE None)
          /\ ret.description = None => "description" \notin DOMAIN to_dict(ret).d
    /\ (fn = "parse_plate_result" /\ ret # Unset /\ IsCar(ret)) =>
          \A f \in CarFields :
              PlateFieldKey[f] \notin DOMAIN arg.d => ret[f] = None

C7_Witness ==
    /\ fn = "parse_vin_result"
    /\ ret # Unset
    /\ "Make" \notin DOMAIN arg.result.d
    /\ "Model" \in DOMAIN arg.result.d /\ arg.result.d.Model = PyStr(<<>>)
    /\ Present("ModelYear")
    /\ "Series" \in DOMAIN arg.result.d /\ ~Present("Series") /\ Present("Trim")
    /\ ret.make = None /\ ret.model = None
    /\ ret.description = PyStr(<<"L", "X">>)
    /\ DOMAIN to_dict(ret).d = {"vin", "year", "description"}

====
